---- MODULE Spec2Model ----
(***************************************************************************)
(* Model of scripts/parse_diff_summary.py: the semantic diff summarizer.   *)
(*                                                                         *)
(* A line of text is a sequence of tokens.  A token is either one HTML     *)
(* tag, written as the string of the tag itself, or a run of text, or (at  *)
(* the start of a diff line) one prefix character.  Every regular          *)
(* expression and substring test of the source is modelled by what it      *)
(* returns on each token (the tables below) and by the source's rule for   *)
(* combining them over a line (first match, any match).                    *)
(***************************************************************************)
EXTENDS Integers, Sequences, FiniteSets, TLC

VARIABLES
    pc,                 \* position of the run
    diff_exists,        \* diff_path.exists()
    lines,              \* diff_content.split('\n')
    snapshot_path,      \* the snapshot file: whether it exists, and its lines
    snapshot_lines,     \* SemanticChangeDetector.snapshot_lines
    i,                  \* parse_diff_advanced: index into lines (0-based)
    new_line,           \* parse_diff_advanced: new_line / chunk_start_line
    added_lines,        \* added lines of the hunk
    removed_lines,      \* removed lines of the hunk
    context_lines,      \* context lines of the hunk
    added_boundaries,   \* split_chunk_into_changes: added_boundaries
    raw_changes,        \* split_chunk_into_changes: changes, before the merge
    chunk_changes,      \* result of split_chunk_into_changes for the hunk
    all_changes,        \* parse_diff_advanced: all_changes
    line_number,        \* get_section_info: argument
    section_info,       \* get_section_info: result
    detected,           \* detect_element_type: result
    prev_changes        \* what the run before this one returned, if there was one

vars == <<pc, diff_exists, lines, snapshot_path, snapshot_lines, i, new_line, added_lines,
          removed_lines, context_lines, added_boundaries, raw_changes, chunk_changes,
          all_changes, line_number, section_info, detected, prev_changes>>

----------------------------------------------------------------------------
(* Bounds of the model *)

MaxDiffLen == 3

MaxHunks == 2

MaxBodyLen == 1

MaxChunkLines == 4

MaxBoundaryLines == 4

MaxSnapLen == 3

MaxRangeLines == 3

MaxDetectLines == 2

MaxContextBody == 3

(* Program constants *)

LookbackWindow == 500

max_length == 150

None == -1

----------------------------------------------------------------------------
(* Generic helpers *)

Min(a, b) == IF a < b THEN a ELSE b

Max(a, b) == IF a > b THEN a ELSE b

Last(s) == s[Len(s)]

SeqsUpTo(S, n) == UNION {[1..k -> S] : k \in 0..n}

RECURSIVE SumSeq(_)
SumSeq(s) == IF s = <<>> THEN 0 ELSE Head(s) + SumSeq(Tail(s))

RECURSIVE Flatten(_)
Flatten(ss) == IF ss = <<>> THEN <<>> ELSE Head(ss) \o Flatten(Tail(ss))

----------------------------------------------------------------------------
(* Tokens: what each pattern of the source returns on each token *)

\* re.search(r'<(tr|li|p|div|h[1-6])[\s>]'): group(1) on the token, "" if no match
OpenTagOf(tok) ==
    CASE tok = "<tr>" -> "tr"
      [] tok = "<li>" -> "li"
      [] tok = "<p>" -> "p"
      [] tok = "<div>" -> "div"
      [] tok = "<div class=\"admonition warning\">" -> "div"
      [] tok = "<h2>" -> "h2"
      [] tok = "<h3 class=\"admonition warning\">" -> "h3"
      [] tok = "<h4>" -> "h4"
      [] tok = "<p class=\"lead\">" -> "p"
      [] tok = "<h3 id=\"pricing\">" -> "h3"
      [] tok = "<h2 id=\"faq\">" -> "h2"
      [] tok = "<h1 id=\"top\">" -> "h1"
      [] OTHER -> ""

\* re.search(r'</(tr|li|p|div|h[1-6])>'): group(1) on the token, "" if no match
CloseTagOf(tok) ==
    CASE tok = "</tr>" -> "tr"
      [] tok = "</li>" -> "li"
      [] tok = "</p>" -> "p"
      [] tok = "</div>" -> "div"
      [] tok = "</h2>" -> "h2"
      [] tok = "</h3>" -> "h3"
      [] tok = "</h4>" -> "h4"
      [] OTHER -> ""

\* The tokens that are tags: re.sub(r'<[^>]+>', '', line) removes exactly these
TagTokens ==
    {"<tr>", "</tr>", "<td>", "</td>", "<li>", "</li>", "<p>", "</p>",
     "<div>", "</div>", "<div class=\"admonition warning\">",
     "<h2>", "</h2>", "<h3 class=\"admonition warning\">", "</h3>",
     "<h4>", "</h4>",
     "<h3 id=\"pricing\">", "<h2 id=\"faq\">", "<h1 id=\"top\">",
     "<TD>", "<p class=\"lead\">", "<nav class=\"md-nav\">",
     "<a href=\"#top\">", "<a name=\"top\">", "<link href=\"s.css\">"}

IsTag(tok) == tok \in TagTokens

\* len() of a run of text
TextLen(tok) ==
    CASE tok = "ab" -> 2
      [] tok = "item" -> 4
      [] tok = "old item" -> 8
      [] tok = "Title" -> 5
      [] tok = "Price" -> 5
      [] tok = "FAQ" -> 3
      [] tok = "unknown section" -> 24
      [] tok = "text of 150 characters" -> 150
      [] tok = "text of 151 characters" -> 151
      [] tok = " a/f" -> 4
      [] tok = " b/f" -> 4
      [] tok = " bad" -> 4
      [] tok = " No newline at end of file" -> 26
      [] OTHER -> 0

\* str.lower() of a token
Lower(tok) == IF tok = "<TD>" THEN "<td>" ELSE tok

\* The substrings the source looks for ('x' in text), per token
MarkersOf(tok) ==
    CASE tok = "<tr>" -> {"<tr>"}
      [] tok = "<td>" -> {"<td>"}
      [] tok = "<li>" -> {"<li>"}
      [] tok = "<p>" -> {"<p>"}
      [] tok = "<div>" -> {"<div"}
      [] tok = "<div class=\"admonition warning\">" ->
            {"<div", "<div class=\"admonition", "admonition warning",
             "class=\"admonition warning"}
      [] tok = "<h2>" -> {"<h2"}
      [] tok = "<h3 class=\"admonition warning\">" ->
            {"<h3", "admonition warning", "class=\"admonition warning"}
      [] tok = "<h3 id=\"pricing\">" -> {"<h3"}
      [] tok = "<h2 id=\"faq\">" -> {"<h2"}
      [] tok = "<h1 id=\"top\">" -> {"<h1"}
      [] tok = "<p class=\"lead\">" -> {"<p "}
      [] tok = "<nav class=\"md-nav\">" -> {"class=\"md-nav"}
      [] tok = "<a href=\"#top\">" -> {"<a", "href="}
      [] tok = "<a name=\"top\">" -> {"<a"}
      [] tok = "<link href=\"s.css\">" -> {"href="}
      [] OTHER -> {}

\* 'marker' in ' '.join(lines): some token of some line bears it
Contains(ls, marker) ==
    \E k \in 1..Len(ls) : \E j \in 1..Len(ls[k]) : marker \in MarkersOf(ls[k][j])

\* 'marker' in ' '.join(lines).lower()
ContainsLower(ls, marker) ==
    \E k \in 1..Len(ls) : \E j \in 1..Len(ls[k]) : marker \in MarkersOf(Lower(ls[k][j]))

RECURSIVE FirstMatch(_, _)
FirstMatch(tags, default) ==
    IF tags = <<>> THEN default
    ELSE IF Head(tags) # "" THEN Head(tags) ELSE FirstMatch(Tail(tags), default)

\* tag_match.group(1) of the first opening tag of the line, "" if none
FirstOpenTag(line) == FirstMatch([j \in 1..Len(line) |-> OpenTagOf(line[j])], "")

\* tag_match.group(1) of the first closing tag of the line, "" if none
FirstCloseTag(line) == FirstMatch([j \in 1..Len(line) |-> CloseTagOf(line[j])], "")

\* re.sub(r'<[^>]+>', '', line).strip(): the runs of text of the line
StripTags(line) == SelectSeq(line, LAMBDA tok : ~IsTag(tok))

\* len() of the tag-stripped line
StrippedLen(line) == SumSeq([j \in 1..Len(StripTags(line)) |-> TextLen(StripTags(line)[j])])

----------------------------------------------------------------------------
(* HTMLStructureDetector *)

\* As detect_element_type, with the rule of '<li>' before the rule of the table
detect_list_item_first(ls) ==
    IF ContainsLower(ls, "<li>") THEN "list_item"
    ELSE IF ContainsLower(ls, "<tr>") \/ ContainsLower(ls, "<td>") THEN "table_row"
    ELSE IF ContainsLower(ls, "<h1") \/ ContainsLower(ls, "<h2") \/ ContainsLower(ls, "<h3") THEN "heading"
    ELSE IF ContainsLower(ls, "<p>") \/ ContainsLower(ls, "<p ") THEN "paragraph"
    ELSE IF ContainsLower(ls, "<div class=\"admonition") THEN "admonition"
    ELSE IF ContainsLower(ls, "class=\"md-nav") THEN "navigation"
    ELSE IF ContainsLower(ls, "<a") /\ ContainsLower(ls, "href=") THEN "link"
    ELSE "content"

detect_element_type(ls) ==
    IF ContainsLower(ls, "<tr>") \/ ContainsLower(ls, "<td>") THEN "table_row"
    ELSE IF ContainsLower(ls, "<li>") THEN "list_item"
    ELSE IF ContainsLower(ls, "<h1") \/ ContainsLower(ls, "<h2") \/ ContainsLower(ls, "<h3") THEN "heading"
    ELSE IF ContainsLower(ls, "<p>") \/ ContainsLower(ls, "<p ") THEN "paragraph"
    ELSE IF ContainsLower(ls, "<div class=\"admonition") THEN "admonition"
    ELSE IF ContainsLower(ls, "class=\"md-nav") THEN "navigation"
    ELSE IF ContainsLower(ls, "<a") /\ ContainsLower(ls, "href=") THEN "link"
    ELSE "content"

\* Python's 'not current_start': true of None and of 0
NotCurrentStart(current_start) == current_start = None \/ current_start = 0

\* As BoundaryStep, with the range closed before the line of the closing tag
BoundaryStepEndBefore(st, line, idx) ==
    LET open == FirstOpenTag(line)
        st1 == IF open # ""
               THEN [st EXCEPT !.current_start = IF NotCurrentStart(@) THEN idx ELSE @,
                               !.stack = Append(@, open)]
               ELSE st
        close == FirstCloseTag(line)
    IN  IF close # "" /\ st1.stack # <<>> /\ Last(st1.stack) = close
        THEN LET popped == SubSeq(st1.stack, 1, Len(st1.stack) - 1)
             IN  IF popped = <<>> /\ st1.current_start # None
                 THEN [boundaries |-> Append(st1.boundaries, <<st1.current_start, idx>>),
                       current_start |-> None,
                       stack |-> popped]
                 ELSE [st1 EXCEPT !.stack = popped]
        ELSE st1

\* One iteration of the for loop, on line number idx (0-based)
BoundaryStep(st, line, idx) ==
    LET open == FirstOpenTag(line)
        st1 == IF open # ""
               THEN [st EXCEPT !.current_start = IF NotCurrentStart(@) THEN idx ELSE @,
                               !.stack = Append(@, open)]
               ELSE st
        close == FirstCloseTag(line)
    IN  IF close # "" /\ st1.stack # <<>> /\ Last(st1.stack) = close
        THEN LET popped == SubSeq(st1.stack, 1, Len(st1.stack) - 1)
             IN  IF popped = <<>> /\ st1.current_start # None
                 THEN [boundaries |-> Append(st1.boundaries, <<st1.current_start, idx + 1>>),
                       current_start |-> None,
                       stack |-> popped]
                 ELSE [st1 EXCEPT !.stack = popped]
        ELSE st1

RECURSIVE BoundaryLoop(_, _, _)
BoundaryLoop(st, ls, k) ==
    IF k > Len(ls) THEN st
    ELSE BoundaryLoop(BoundaryStep(st, ls[k], k - 1), ls, k + 1)

find_element_boundaries(ls) ==
    LET st == BoundaryLoop([boundaries |-> <<>>, current_start |-> None, stack |-> <<>>], ls, 1)
        b1 == IF st.current_start # None
              THEN Append(st.boundaries, <<st.current_start, Len(ls)>>)
              ELSE st.boundaries
    IN  IF b1 = <<>> /\ ls # <<>> THEN <<<<0, Len(ls)>>>> ELSE b1

----------------------------------------------------------------------------
(* SemanticChangeDetector *)

\* __init__: the lines of the snapshot file, none when the file is missing
LoadSnapshot(path) == IF path.exists THEN path.content ELSE <<>>

\* The fixed "unknown section" result
UnknownSection == <<"unknown section">>

Sentinel == [section |-> UnknownSection, anchor |-> "", error |-> FALSE]

\* No run of parse_diff_advanced came before this one
NoRun == [ran |-> FALSE, result |-> <<>>]

\* re.search(r'<h([2-4])[^>]*id=["\']([^"\']+)["\'][^>]*>'): group(2) on the token
HeadingIdOf(tok) ==
    CASE tok = "<h3 id=\"pricing\">" -> "pricing"
      [] tok = "<h2 id=\"faq\">" -> "faq"
      [] OTHER -> ""

\* h_match.group(2) of the first match in the line, "" if none
HeadingId(line) == FirstMatch([j \in 1..Len(line) |-> HeadingIdOf(line[j])], "")

\* A Python list index is valid from -len to len - 1
ValidIndex(s, idx) == -Len(s) <= idx /\ idx < Len(s)

\* s[idx] of a Python list: a negative index counts from the end
At(s, idx) == IF idx >= 0 THEN s[idx + 1] ELSE s[Len(s) + idx + 1]

\* As ScanStart, clamped to the length instead of the last index
ScanStartAtLen(n) == Min(n - 1, Len(snapshot_lines))

\* As ScanStop, with the first line of the snapshot scanned too
ScanStopInclusive(n) == Max(0, n - LookbackWindow) - 1

\* range(start, stop, -1): first index and exclusive last index of the scan
ScanStart(n) == Min(n - 1, Len(snapshot_lines) - 1)

ScanStop(n) == Max(0, n - LookbackWindow)

\* The for loop of get_section_info, from index idx down to stop (exclusive)
RECURSIVE SectionScan(_, _)
SectionScan(idx, stop) ==
    IF idx <= stop THEN Sentinel
    ELSE IF ~ValidIndex(snapshot_lines, idx)
    THEN [section |-> <<>>, anchor |-> "", error |-> TRUE]
    ELSE LET anchor_id == HeadingId(At(snapshot_lines, idx))
         IN  IF anchor_id # "" /\ idx + 1 < Len(snapshot_lines)
                /\ StripTags(At(snapshot_lines, idx + 1)) # <<>>
             THEN [section |-> StripTags(At(snapshot_lines, idx + 1)),
                   anchor |-> anchor_id, error |-> FALSE]
             ELSE SectionScan(idx - 1, stop)

get_section_info(n) ==
    IF snapshot_lines = <<>> THEN Sentinel
    ELSE SectionScan(ScanStart(n), ScanStop(n))

\* re.match(r'^\s*</?[^>]+>\s*$', line): the line is one tag and nothing else
IsStructural(line) == Len(line) = 1 /\ IsTag(line[1])

\* The text parts kept by the loop of _extract_preview_text, one per line kept
RECURSIVE PreviewParts(_)
PreviewParts(ls) ==
    IF ls = <<>> THEN <<>>
    ELSE LET line == Head(ls)
             keep == ~IsStructural(line) /\ StripTags(line) # <<>> /\ StrippedLen(line) > 3
         IN  (IF keep THEN <<StripTags(line)>> ELSE <<>>) \o PreviewParts(Tail(ls))

\* A preview: the runs of text it is built from, its length in characters,
\* and whether it was cut
_extract_preview_text(ls) ==
    LET parts == PreviewParts(ls)
        joined == SumSeq([k \in 1..Len(parts) |->
                            SumSeq([j \in 1..Len(parts[k]) |-> TextLen(parts[k][j])])])
                  + (IF parts = <<>> THEN 0 ELSE Len(parts) - 1)
    IN  IF joined > max_length
        THEN [text |-> Flatten(parts) \o <<"...">>, len |-> max_length + 3, cut |-> TRUE]
        ELSE [text |-> Flatten(parts), len |-> joined, cut |-> FALSE]

\* The labels, in English for the strings of the source
AddedPrefix == "added: "

DeletedPrefix == "deleted: "

HeadingNew == <<"heading changed (new)">>

HeadingOld == <<"heading changed (old)">>

_classify_change_type(element_type, ls, is_deletion) ==
    LET prefix == IF is_deletion THEN DeletedPrefix ELSE AddedPrefix
    IN  IF ContainsLower(ls, "admonition warning")
           \/ ContainsLower(ls, "class=\"admonition warning")
        THEN <<prefix, "Warning">>
        ELSE IF ContainsLower(ls, "admonition note") THEN <<prefix, "Note">>
        ELSE IF element_type = "table_row" THEN <<prefix, "table row">>
        ELSE IF element_type = "list_item" THEN <<prefix, "list item">>
        ELSE IF element_type = "heading"
             THEN (IF is_deletion THEN HeadingOld ELSE HeadingNew)
        ELSE IF element_type = "navigation" THEN <<prefix, "navigation">>
        ELSE IF element_type = "paragraph" THEN <<prefix, "paragraph">>
        ELSE IF element_type = "admonition" THEN <<prefix, "admonition">>
        ELSE <<prefix, "content">>

\* The merged record of an addition `current` and the deletion next_change
MergedChange(current, next_change) ==
    [section |-> current.section,
     type |-> <<"modified: ", current.html_element>>,
     line |-> current.line,
     preview |-> [text |-> <<"[old]">> \o next_change.preview.text
                           \o <<"->", "[new]">> \o current.preview.text,
                  len |-> 6 + next_change.preview.len + 5 + 6 + current.preview.len,
                  cut |-> next_change.preview.cut \/ current.preview.cut],
     additions |-> current.additions,
     deletions |-> next_change.deletions,
     anchor |-> current.anchor,
     detail |-> "",
     html_element |-> current.html_element]

\* As IsPair, without the test that the second record is a deletion
IsPairOfAnySides(changes, k) ==
    /\ k + 1 < Len(changes)
    /\ changes[k + 2].html_element = changes[k + 1].html_element
    /\ changes[k + 2].section = changes[k + 1].section
    /\ changes[k + 1].additions > 0

\* As IsPair, without the test that the two records are of the same element
IsPairOfAnyElements(changes, k) ==
    /\ k + 1 < Len(changes)
    /\ changes[k + 2].section = changes[k + 1].section
    /\ changes[k + 1].additions > 0
    /\ changes[k + 2].deletions > 0

\* The pairing test of the while loop, at index k (0-based)
IsPair(changes, k) ==
    /\ k + 1 < Len(changes)
    /\ changes[k + 2].html_element = changes[k + 1].html_element
    /\ changes[k + 2].section = changes[k + 1].section
    /\ changes[k + 1].additions > 0
    /\ changes[k + 2].deletions > 0

RECURSIVE MergeLoop(_, _)
MergeLoop(changes, k) ==
    IF k >= Len(changes) THEN <<>>
    ELSE IF IsPair(changes, k)
    THEN <<MergedChange(changes[k + 1], changes[k + 2])>> \o MergeLoop(changes, k + 2)
    ELSE <<changes[k + 1]>> \o MergeLoop(changes, k + 1)

_merge_related_changes(changes) ==
    IF Len(changes) <= 1 THEN changes ELSE MergeLoop(changes, 0)

\* all_context[-5:] if len(all_context) > 5 else all_context
RecentContext(all_context) ==
    IF Len(all_context) > 5
    THEN SubSeq(all_context, Len(all_context) - 4, Len(all_context))
    ELSE all_context

InTableRow(all_context) ==
    \E k \in 1..Len(RecentContext(all_context)) :
        Contains(<<RecentContext(all_context)[k]>>, "<tr>")
        \/ Contains(<<RecentContext(all_context)[k]>>, "<td>")

\* As ElementType, with the override applied whatever the natural type is
ElementTypeOfAnyType(in_table_row, element_lines) ==
    IF in_table_row
       /\ ~Contains(element_lines, "<tr>")
       /\ ~Contains(element_lines, "<p>")
       /\ ~Contains(element_lines, "<div")
    THEN "table_row"
    ELSE detect_element_type(element_lines)

\* The element type of a range: the natural one, or the table-row override
ElementType(in_table_row, element_lines) ==
    LET element_type == detect_element_type(element_lines)
    IN  IF in_table_row /\ element_type = "content"
           /\ ~Contains(element_lines, "<tr>")
           /\ ~Contains(element_lines, "<p>")
           /\ ~Contains(element_lines, "<div")
        THEN "table_row"
        ELSE element_type

\* As MakeChange, with a removed element placed at the line before the hunk
MakeChangeAtOldLine(chunk_start_line, element_lines, in_table_row, is_deletion) ==
    LET element_type == ElementType(in_table_row, element_lines)
        at == IF is_deletion THEN chunk_start_line - 1 ELSE chunk_start_line
        info == get_section_info(at)
    IN  [section |-> info.section,
         type |-> _classify_change_type(element_type, element_lines, is_deletion),
         line |-> at,
         preview |-> _extract_preview_text(element_lines),
         additions |-> IF is_deletion THEN 0 ELSE Len(element_lines),
         deletions |-> IF is_deletion THEN Len(element_lines) ELSE 0,
         anchor |-> info.anchor,
         detail |-> "",
         html_element |-> element_type]

\* The Change built for one range of one side
MakeChange(chunk_start_line, element_lines, in_table_row, is_deletion) ==
    LET element_type == ElementType(in_table_row, element_lines)
        info == get_section_info(chunk_start_line)
    IN  [section |-> info.section,
         type |-> _classify_change_type(element_type, element_lines, is_deletion),
         line |-> chunk_start_line,
         preview |-> _extract_preview_text(element_lines),
         additions |-> IF is_deletion THEN 0 ELSE Len(element_lines),
         deletions |-> IF is_deletion THEN Len(element_lines) ELSE 0,
         anchor |-> info.anchor,
         detail |-> "",
         html_element |-> element_type]

\* As Slice, without the first line of the range
SliceAfterStart(ls, start, end) == SubSeq(ls, start + 2, Min(end, Len(ls)))

\* lines[start:end] of a Python list
Slice(ls, start, end) == SubSeq(ls, start + 1, Min(end, Len(ls)))

\* The raw records of one side, one per range
SideChanges(chunk_start_line, side_lines, in_table_row, is_deletion) ==
    LET bs == find_element_boundaries(side_lines)
    IN  [k \in 1..Len(bs) |->
            MakeChange(chunk_start_line, Slice(side_lines, bs[k][1], bs[k][2]),
                       in_table_row, is_deletion)]

\* The raw records of a hunk: the additions, then the deletions
RawChanges(chunk_start_line, added, removed, context) ==
    SideChanges(chunk_start_line, added, InTableRow(context), FALSE)
    \o SideChanges(chunk_start_line, removed, InTableRow(context), TRUE)

\* The result of the method: the raw records, merged
split_chunk_into_changes(chunk_start_line, added, removed, context) ==
    _merge_related_changes(RawChanges(chunk_start_line, added, removed, context))

\* Whether the call raises: a section lookup outside the snapshot
SplitRaises(chunk_start_line, added, removed) ==
    (added # <<>> \/ removed # <<>>) /\ get_section_info(chunk_start_line).error

----------------------------------------------------------------------------
(* parse_diff_advanced *)

\* line.startswith(prefix), prefix a sequence of characters
StartsWith(line, prefix) ==
    Len(line) >= Len(prefix) /\ SubSeq(line, 1, Len(prefix)) = prefix

\* re.match(r'^@@ -(\d+),?\d* \+(\d+),?\d* @@') after the leading '@@':
\* int(group(2)) on the token, None if no match
HeaderNewOf(tok) ==
    CASE tok = " -1 +1 @@" -> 1
      [] tok = " -3,2 +4,3 @@" -> 4
      [] tok = " -6 +7 @@" -> 7
      [] tok = " -9,2 +10,2 @@" -> 10
      [] OTHER -> None

\* chunk_match is not None
IsChunkHeader(line) ==
    Len(line) >= 3 /\ StartsWith(line, <<"@", "@">>) /\ HeaderNewOf(line[3]) # None

\* line.lstrip(' ')
RECURSIVE LStrip(_)
LStrip(line) ==
    IF line # <<>> /\ Head(line) = " " THEN LStrip(Tail(line)) ELSE line

\* As LineOutcome, without the test for '+++'
LineOutcomePlusOnly(line) ==
    IF StartsWith(line, <<"+">>) THEN "added"
    ELSE IF StartsWith(line, <<"-">>) /\ ~StartsWith(line, <<"-", "-", "-">>) THEN "removed"
    ELSE IF ~StartsWith(line, <<"\\">>) THEN "context"
    ELSE "dropped"

\* As LineOutcome, without the test for '---'
LineOutcomeMinusOnly(line) ==
    IF StartsWith(line, <<"+">>) /\ ~StartsWith(line, <<"+", "+", "+">>) THEN "added"
    ELSE IF StartsWith(line, <<"-">>) THEN "removed"
    ELSE IF ~StartsWith(line, <<"\\">>) THEN "context"
    ELSE "dropped"

\* The if/elif chain that places one line of a hunk
LineOutcome(line) ==
    IF StartsWith(line, <<"+">>) /\ ~StartsWith(line, <<"+", "+", "+">>) THEN "added"
    ELSE IF StartsWith(line, <<"-">>) /\ ~StartsWith(line, <<"-", "-", "-">>) THEN "removed"
    ELSE IF ~StartsWith(line, <<"\\">>) THEN "context"
    ELSE "dropped"

\* As AfterSkip, with a malformed '@@' line ending the pass
AfterSkipAbort(idx) ==
    IF StartsWith(lines[idx + 1], <<"@", "@">>) THEN Len(lines) ELSE idx + 1

\* i += 1 of the outer loop, on a line that is no hunk header
AfterSkip(idx) == idx + 1

\* As FreshList, with the records of the run before still in the list
KeptList == all_changes

\* all_changes = []
FreshList == <<>>

\* As Extend, with the records of the hunk put before the earlier ones
ExtendAtFront(changes, chunk) == chunk \o changes

\* all_changes.extend(chunk_changes)
Extend(changes, chunk) == changes \o chunk

\* if not diff_path.exists(): return []
ReturnAbsent ==
    /\ pc = "start"
    /\ ~diff_exists
    /\ pc' = "done"
    /\ all_changes' = <<>>
    /\ UNCHANGED <<raw_changes, detected, prev_changes, diff_exists, lines,
                   snapshot_path, snapshot_lines, i, new_line, added_lines,
                   removed_lines, context_lines, added_boundaries,
                   chunk_changes, line_number, section_info>>

\* Read the diff, construct the detector, i = 0
Open ==
    /\ pc = "start"
    /\ diff_exists
    /\ pc' = "scan"
    /\ snapshot_lines' = LoadSnapshot(snapshot_path)
    /\ all_changes' = FreshList
    /\ i' = 0
    /\ UNCHANGED <<raw_changes, detected, prev_changes, diff_exists, lines,
                   snapshot_path, new_line, added_lines, removed_lines,
                   context_lines, added_boundaries, chunk_changes, line_number,
                   section_info>>

\* Outer loop, a line that is no hunk header
ScanLine ==
    /\ pc = "scan"
    /\ i < Len(lines)
    /\ ~IsChunkHeader(lines[i + 1])
    /\ i' = AfterSkip(i)
    /\ UNCHANGED <<pc, raw_changes, detected, prev_changes, diff_exists, lines,
                   snapshot_path, snapshot_lines, new_line, added_lines,
                   removed_lines, context_lines, added_boundaries,
                   chunk_changes, all_changes, line_number, section_info>>

\* Outer loop, a hunk header
ChunkHeader ==
    /\ pc = "scan"
    /\ i < Len(lines)
    /\ IsChunkHeader(lines[i + 1])
    /\ new_line' = HeaderNewOf(lines[i + 1][3])
    /\ added_lines' = <<>>
    /\ removed_lines' = <<>>
    /\ context_lines' = <<>>
    /\ i' = i + 1
    /\ pc' = "chunk"
    /\ UNCHANGED <<raw_changes, detected, prev_changes, diff_exists, lines,
                   snapshot_path, snapshot_lines, added_boundaries,
                   chunk_changes, all_changes, line_number, section_info>>

\* Inner loop, one line of the hunk
ChunkLine ==
    /\ pc = "chunk"
    /\ i < Len(lines)
    /\ ~StartsWith(lines[i + 1], <<"@", "@">>)
    /\ LET line == lines[i + 1]
           outcome == LineOutcome(line)
       IN  /\ added_lines' = IF outcome = "added"
                             THEN Append(added_lines, Tail(line)) ELSE added_lines
           /\ removed_lines' = IF outcome = "removed"
                               THEN Append(removed_lines, Tail(line)) ELSE removed_lines
           /\ context_lines' = IF outcome = "context"
                               THEN Append(context_lines, LStrip(line)) ELSE context_lines
    /\ i' = i + 1
    /\ UNCHANGED <<pc, raw_changes, detected, prev_changes, diff_exists, lines,
                   snapshot_path, snapshot_lines, new_line, added_boundaries,
                   chunk_changes, all_changes, line_number, section_info>>

\* End of the inner loop: split the hunk, extend all_changes, continue
ChunkEnd ==
    /\ pc = "chunk"
    /\ IF i < Len(lines) THEN StartsWith(lines[i + 1], <<"@", "@">>) ELSE TRUE
    /\ IF added_lines # <<>> \/ removed_lines # <<>>
       THEN IF SplitRaises(new_line, added_lines, removed_lines)
            THEN /\ pc' = "error"
                 /\ UNCHANGED <<added_boundaries, raw_changes, chunk_changes, all_changes>>
            ELSE /\ pc' = "scan"
                 /\ added_boundaries' = find_element_boundaries(added_lines)
                 /\ raw_changes' = RawChanges(new_line, added_lines, removed_lines,
                                          context_lines)
                 /\ chunk_changes' = _merge_related_changes(raw_changes')
                 /\ all_changes' = Extend(all_changes, chunk_changes')
       ELSE /\ pc' = "scan"
            /\ UNCHANGED <<added_boundaries, raw_changes, chunk_changes, all_changes>>
    /\ UNCHANGED <<detected, prev_changes, diff_exists, lines, snapshot_path,
                   snapshot_lines, i, new_line, added_lines, removed_lines,
                   context_lines, line_number, section_info>>

\* End of the outer loop: return the records
Return ==
    /\ pc = "scan"
    /\ i >= Len(lines)
    /\ pc' = "done"
    /\ UNCHANGED <<raw_changes, detected, prev_changes, diff_exists, lines,
                   snapshot_path, snapshot_lines, i, new_line, added_lines,
                   removed_lines, context_lines, added_boundaries,
                   chunk_changes, all_changes, line_number, section_info>>

Next == ReturnAbsent \/ Open \/ ScanLine \/ ChunkHeader \/ ChunkLine \/ ChunkEnd \/ Return

\* parse_diff_advanced is called once more on the same two files; whatever
\* the run before left behind is still there
Again ==
    /\ pc = "done"
    /\ ~prev_changes.ran
    /\ pc' = "start"
    /\ prev_changes' = [ran |-> TRUE, result |-> all_changes]
    /\ UNCHANGED <<raw_changes, detected, diff_exists, lines, snapshot_path,
                   snapshot_lines, i, new_line, added_lines, removed_lines,
                   context_lines, added_boundaries, chunk_changes, all_changes,
                   line_number, section_info>>

----------------------------------------------------------------------------
(* The inputs the specifications draw from *)

HeaderLine(tok) == <<"@", "@", tok>>

\* Lines of a diff text
DiffLines ==
    {HeaderLine(" -1 +1 @@"),
     HeaderLine(" -3,2 +4,3 @@"),
     HeaderLine(" bad"),
     <<"+", "<li>", "item", "</li>">>,
     <<"-", "<li>", "old item", "</li>">>,
     <<"+", "+", "+", " b/f">>,
     <<"-", "-", "-", " a/f">>,
     <<"\\", " No newline at end of file">>,
     <<" ", "<td>">>,
     <<>>}

\* A snapshot with one section: heading on the second line, its text on the third
SnapshotOneSection == <<<<"<h1 id=\"top\">">>, <<"<h3 id=\"pricing\">">>, <<"Price">>>>

\* Snapshot files of the runs of parse_diff_advanced: missing, empty, present
SnapshotFiles ==
    {[exists |-> FALSE, content |-> <<>>],
     [exists |-> TRUE, content |-> <<>>],
     [exists |-> TRUE, content |-> SnapshotOneSection]}

\* Lines of the body of a hunk, for the diffs built hunk by hunk
HunkLines ==
    {<<"+", "<h2>", "Title", "</h2>">>,
     <<"-", "<h2>", "Title", "</h2>">>,
     <<"+", "<h3 class=\"admonition warning\">", "Title", "</h3>">>}

\* The header of the k-th hunk: new_start strictly increases from hunk to hunk
HunkHeader(k) ==
    HeaderLine(CASE k = 1 -> " -1 +1 @@"
                 [] k = 2 -> " -3,2 +4,3 @@"
                 [] k = 3 -> " -6 +7 @@"
                 [] OTHER -> " -9,2 +10,2 @@")

\* The diff texts of k hunks, each a header and a body
RECURSIVE HunkDiffs(_)
HunkDiffs(k) ==
    IF k = 0 THEN {<<>>}
    ELSE {d \o <<HunkHeader(k)>> \o body :
            d \in HunkDiffs(k - 1), body \in SeqsUpTo(HunkLines, MaxBodyLen)}

\* The lines before the first hunk: none, or the two file lines
Preambles == {<<>>, <<<<"-", "-", "-", " a/f">>, <<"+", "+", "+", " b/f">>>>}

\* Lines of one side of a hunk
ChunkLines ==
    {<<"<tr>">>, <<"</tr>">>, <<"<li>">>, <<"</li>">>,
     <<"<p>", "item", "</p>">>, <<"<li>", "old item", "</li>">>}

\* Lines of one side of a hunk, with text at the limit of the preview and
\* with ranges that have no type of their own
RangeLines ==
    {<<"<p>", "text of 150 characters", "</p>">>,
     <<"<p>", "text of 151 characters", "</p>">>,
     <<"<div>">>, <<"item">>, <<"<li>", "old item", "</li>">>}

\* Lines of a range given to detect_element_type: one for each marker the
\* rules look for, alone or in part, and one of text
DetectLines ==
    {<<"<td>">>, <<"<TD>">>, <<"<li>">>, <<"<h2>">>, <<"<h4>">>, <<"<p>">>,
     <<"<p class=\"lead\">">>, <<"<div class=\"admonition warning\">">>,
     <<"<nav class=\"md-nav\">">>, <<"<a href=\"#top\">">>, <<"<a name=\"top\">">>,
     <<"<link href=\"s.css\">">>, <<"item">>}

\* Lines of the body of a hunk whose changed lines are plain text: the
\* changed lines, and context lines with and without a table cell
ContextBodyLines ==
    {<<"+", "item">>, <<"-", "item">>, <<" ", "<td>">>, <<" ", "item">>}

\* Context lines of a hunk: none, or a table cell opened just before
ContextChoices == {<<>>, <<<<"<td>">>>>}

\* Line sequences given to find_element_boundaries
BoundaryLines ==
    {<<"<div>">>, <<"</div>">>, <<"<p>">>, <<"</p>">>, <<"<p>", "item", "</p>">>,
     <<"<tr>">>, <<"</tr>">>, <<"item">>}

\* Lines of a snapshot
SnapshotLines ==
    {<<"<h3 id=\"pricing\">">>, <<"Price">>, <<"<h1 id=\"top\">">>,
     <<"<h2 id=\"faq\">", "FAQ", "</h2>">>, <<"unknown section">>}

\* Arguments of get_section_info: around the snapshot, and around the window
LineNumbers ==
    (-1 .. MaxSnapLen + 2) \cup (LookbackWindow - 1 .. LookbackWindow + MaxSnapLen + 1)

----------------------------------------------------------------------------
(* Calls of the detector's methods on their own *)

\* find_element_boundaries(added_lines)
CallBoundaries ==
    /\ pc = "boundaries_call"
    /\ pc' = "boundaries_return"
    /\ added_boundaries' = find_element_boundaries(added_lines)
    /\ UNCHANGED <<raw_changes, detected, prev_changes, diff_exists, lines,
                   snapshot_path, snapshot_lines, i, new_line, added_lines,
                   removed_lines, context_lines, chunk_changes, all_changes,
                   line_number, section_info>>

\* detect_element_type(added_lines)
CallDetect ==
    /\ pc = "detect_call"
    /\ pc' = "detect_return"
    /\ detected' = detect_element_type(added_lines)
    /\ UNCHANGED <<raw_changes, prev_changes, diff_exists, lines,
                   snapshot_path, snapshot_lines, i, new_line, added_lines,
                   removed_lines, context_lines, added_boundaries,
                   chunk_changes, all_changes, line_number, section_info>>

\* split_chunk_into_changes(new_line, added_lines, removed_lines, context_lines)
CallSplit ==
    /\ pc = "split_call"
    /\ pc' = "split_return"
    /\ added_boundaries' = find_element_boundaries(added_lines)
    /\ raw_changes' = RawChanges(new_line, added_lines, removed_lines, context_lines)
    /\ chunk_changes' = _merge_related_changes(raw_changes')
    /\ UNCHANGED <<detected, prev_changes, diff_exists, lines, snapshot_path,
                   snapshot_lines, i, new_line, added_lines, removed_lines,
                   context_lines, all_changes, line_number, section_info>>

\* get_section_info(line_number)
CallSection ==
    /\ pc = "section_call"
    /\ pc' = "section_return"
    /\ section_info' = get_section_info(line_number)
    /\ UNCHANGED <<raw_changes, detected, prev_changes, diff_exists, lines,
                   snapshot_path, snapshot_lines, i, new_line, added_lines,
                   removed_lines, context_lines, added_boundaries,
                   chunk_changes, all_changes, line_number>>

----------------------------------------------------------------------------
(* Specifications *)

\* The values of the variables a specification does not use
Idle ==
    /\ i = 0
    /\ new_line = 0
    /\ added_lines = <<>>
    /\ removed_lines = <<>>
    /\ context_lines = <<>>
    /\ added_boundaries = <<>>
    /\ raw_changes = <<>>
    /\ chunk_changes = <<>>
    /\ all_changes = <<>>
    /\ line_number = 0
    /\ section_info = Sentinel
    /\ detected = ""
    /\ prev_changes = NoRun

\* A run of parse_diff_advanced on any diff text of up to MaxDiffLen lines
Init ==
    /\ pc = "start"
    /\ diff_exists \in BOOLEAN
    /\ lines \in (IF diff_exists THEN SeqsUpTo(DiffLines, MaxDiffLen) \ {<<>>} ELSE {<<>>})
    /\ snapshot_path \in SnapshotFiles
    /\ snapshot_lines = <<>>
    /\ Idle

Spec == Init /\ [][Next]_vars

\* A run of parse_diff_advanced on a diff text of up to MaxHunks hunks
InitHunks ==
    /\ pc = "start"
    /\ diff_exists = TRUE
    /\ lines \in {pre \o d : pre \in Preambles,
                             d \in UNION {HunkDiffs(k) : k \in 1..MaxHunks}}
    /\ snapshot_path \in SnapshotFiles
    /\ snapshot_lines = <<>>
    /\ Idle

NextHunks == Open \/ ScanLine \/ ChunkHeader \/ ChunkLine \/ ChunkEnd \/ Return

SpecHunks == InitHunks /\ [][NextHunks]_vars

\* A run of parse_diff_advanced on a diff text of one hunk, of plain text
\* changed between context lines
InitContext ==
    /\ pc = "start"
    /\ diff_exists = TRUE
    /\ lines \in {pre \o <<HunkHeader(1)>> \o body :
                    pre \in Preambles,
                    body \in SeqsUpTo(ContextBodyLines, MaxContextBody)}
    /\ snapshot_path = [exists |-> FALSE, content |-> <<>>]
    /\ snapshot_lines = <<>>
    /\ Idle

SpecContext == InitContext /\ [][NextHunks]_vars

\* Two runs of parse_diff_advanced, one after the other, on the same files
NextTwice == Next \/ Again

SpecTwice == Init /\ [][NextTwice]_vars

\* A call of find_element_boundaries on any sequence of up to MaxBoundaryLines lines
InitBoundaries ==
    /\ pc = "boundaries_call"
    /\ diff_exists = TRUE
    /\ lines = <<>>
    /\ snapshot_path = [exists |-> FALSE, content |-> <<>>]
    /\ snapshot_lines = <<>>
    /\ i = 0
    /\ new_line = 0
    /\ added_lines \in SeqsUpTo(BoundaryLines, MaxBoundaryLines)
    /\ removed_lines = <<>>
    /\ context_lines = <<>>
    /\ added_boundaries = <<>>
    /\ raw_changes = <<>>
    /\ chunk_changes = <<>>
    /\ all_changes = <<>>
    /\ line_number = 0
    /\ section_info = Sentinel
    /\ detected = ""
    /\ prev_changes = NoRun

SpecBoundaries == InitBoundaries /\ [][CallBoundaries]_vars

\* A call of detect_element_type on any range of up to MaxDetectLines lines
InitDetect ==
    /\ pc = "detect_call"
    /\ diff_exists = TRUE
    /\ lines = <<>>
    /\ snapshot_path = [exists |-> FALSE, content |-> <<>>]
    /\ snapshot_lines = <<>>
    /\ i = 0
    /\ new_line = 0
    /\ added_lines \in SeqsUpTo(DetectLines, MaxDetectLines)
    /\ removed_lines = <<>>
    /\ context_lines = <<>>
    /\ added_boundaries = <<>>
    /\ raw_changes = <<>>
    /\ chunk_changes = <<>>
    /\ all_changes = <<>>
    /\ line_number = 0
    /\ section_info = Sentinel
    /\ detected = ""
    /\ prev_changes = NoRun

SpecDetect == InitDetect /\ [][CallDetect]_vars

\* The pairs of sides of a hunk with up to n lines together
SidePairs(n) ==
    UNION {[1..a -> ChunkLines] \X [1..r -> ChunkLines] :
             <<a, r>> \in {p \in (0..n) \X (0..n) : p[1] + p[2] <= n}}

\* A call of split_chunk_into_changes on any hunk of up to MaxChunkLines lines
InitSplit ==
    /\ pc = "split_call"
    /\ diff_exists = TRUE
    /\ lines = <<>>
    /\ snapshot_path = [exists |-> TRUE, content |-> SnapshotOneSection]
    /\ snapshot_lines = LoadSnapshot(snapshot_path)
    /\ i = 0
    /\ new_line = 4
    /\ \E sides \in SidePairs(MaxChunkLines) :
          /\ added_lines = sides[1]
          /\ removed_lines = sides[2]
    /\ context_lines \in ContextChoices
    /\ added_boundaries = <<>>
    /\ raw_changes = <<>>
    /\ chunk_changes = <<>>
    /\ all_changes = <<>>
    /\ line_number = 0
    /\ section_info = Sentinel
    /\ detected = ""
    /\ prev_changes = NoRun

SpecSplit == InitSplit /\ [][CallSplit]_vars

\* The pairs of sides, of lines of RangeLines, with up to n lines together
RangePairs(n) ==
    UNION {[1..a -> RangeLines] \X [1..r -> RangeLines] :
             <<a, r>> \in {p \in (0..n) \X (0..n) : p[1] + p[2] <= n}}

\* A call of split_chunk_into_changes on any hunk of up to MaxRangeLines lines
\* of RangeLines
InitRanges ==
    /\ pc = "split_call"
    /\ diff_exists = TRUE
    /\ lines = <<>>
    /\ snapshot_path = [exists |-> TRUE, content |-> SnapshotOneSection]
    /\ snapshot_lines = LoadSnapshot(snapshot_path)
    /\ i = 0
    /\ new_line = 4
    /\ \E sides \in RangePairs(MaxRangeLines) :
          /\ added_lines = sides[1]
          /\ removed_lines = sides[2]
    /\ context_lines \in ContextChoices
    /\ added_boundaries = <<>>
    /\ raw_changes = <<>>
    /\ chunk_changes = <<>>
    /\ all_changes = <<>>
    /\ line_number = 0
    /\ section_info = Sentinel
    /\ detected = ""
    /\ prev_changes = NoRun

SpecRanges == InitRanges /\ [][CallSplit]_vars

\* A call of get_section_info on any snapshot of up to MaxSnapLen lines
InitSection ==
    /\ pc = "section_call"
    /\ diff_exists = TRUE
    /\ lines = <<>>
    /\ snapshot_path \in {[exists |-> FALSE, content |-> <<>>]}
                         \cup {[exists |-> TRUE, content |-> c] :
                                 c \in SeqsUpTo(SnapshotLines, MaxSnapLen)}
    /\ snapshot_lines = LoadSnapshot(snapshot_path)
    /\ i = 0
    /\ new_line = 0
    /\ added_lines = <<>>
    /\ removed_lines = <<>>
    /\ context_lines = <<>>
    /\ added_boundaries = <<>>
    /\ raw_changes = <<>>
    /\ chunk_changes = <<>>
    /\ all_changes = <<>>
    /\ line_number \in LineNumbers
    /\ section_info = Sentinel
    /\ detected = ""
    /\ prev_changes = NoRun

SpecSection == InitSection /\ [][CallSection]_vars

----------------------------------------------------------------------------
(* The words of the claims *)

\* A line starting with '+' but not '+++'
PlusLine(line) ==
    line # <<>> /\ line[1] = "+"
    /\ ~(Len(line) >= 3 /\ line[2] = "+" /\ line[3] = "+")

\* A line starting with '-' but not '---'
MinusLine(line) ==
    line # <<>> /\ line[1] = "-"
    /\ ~(Len(line) >= 3 /\ line[2] = "-" /\ line[3] = "-")

\* A line starting with a backslash
MarkerLine(line) == line # <<>> /\ line[1] = "\\"

\* A line starting with '@@'
AtAtLine(line) == Len(line) >= 2 /\ line[1] = "@" /\ line[2] = "@"

\* A line starting with '@@' that is no hunk header
MalformedHeader(line) == AtAtLine(line) /\ ~IsChunkHeader(line)

\* The positions (1-based) of the hunk headers of the diff text
Headers == {h \in 1..Len(lines) : IsChunkHeader(lines[h])}

\* The header of the hunk that the lines up to position n belong to
LastHeaderUpTo(n) == CHOOSE h \in Headers : h <= n /\ \A g \in Headers : g <= n => g <= h

\* The hunk of header h has an added or removed line before the next '@@' line
HunkChanged(h) ==
    \E k \in h + 1 .. Len(lines) :
        /\ PlusLine(lines[k]) \/ MinusLine(lines[k])
        /\ \A j \in h + 1 .. k : ~AtAtLine(lines[j])

----------------------------------------------------------------------------
(* C1: inside a hunk a line is placed by its prefix alone: '+' (not '+++')   *)
(* appends it, prefix removed, to the added lines; '-' (not '---') appends   *)
(* it, prefix removed, to the removed lines; a backslash drops it; any other *)
(* line, '+++' and '---' included, goes to the context lines; each line has  *)
(* exactly one of the four outcomes.                                          *)
C1_PrefixDecides ==
    [][(pc = "chunk" /\ pc' = "chunk" /\ i' = i + 1) =>
        LET line == lines[i + 1]
        IN  /\ PlusLine(line) =>
                /\ added_lines' = Append(added_lines, Tail(line))
                /\ UNCHANGED <<removed_lines, context_lines>>
            /\ MinusLine(line) =>
                /\ removed_lines' = Append(removed_lines, Tail(line))
                /\ UNCHANGED <<added_lines, context_lines>>
            /\ MarkerLine(line) =>
                UNCHANGED <<added_lines, removed_lines, context_lines>>
            /\ (~PlusLine(line) /\ ~MinusLine(line) /\ ~MarkerLine(line)) =>
                /\ Len(context_lines') = Len(context_lines) + 1
                /\ SubSeq(context_lines', 1, Len(context_lines)) = context_lines
                /\ UNCHANGED <<added_lines, removed_lines>>]_vars

\* C1 witness: in one hunk a '+' line was added and a '+++' line went to the context
C1_Witness ==
    /\ pc = "chunk"
    /\ added_lines # <<>>
    /\ \E k \in 1..Len(context_lines) : StartsWith(context_lines[k], <<"+", "+", "+">>)

(* C2: records are appended to the output only for a hunk that has at least *)
(* one added or removed line, and a diff text with no hunk header yields    *)
(* the empty list.                                                           *)
C2_OnlyChangedHunks ==
    /\ [](Headers = {} => all_changes = <<>>)
    /\ [][all_changes' # all_changes =>
            /\ \E h \in Headers : h <= i
            /\ \E k \in LastHeaderUpTo(i) + 1 .. i : PlusLine(lines[k]) \/ MinusLine(lines[k])]_vars

\* C2 witness: two hunks, the first without a changed line, and one record
C2_Witness ==
    /\ pc = "done"
    /\ Len(lines) = 3
    /\ IsChunkHeader(lines[1])
    /\ IsChunkHeader(lines[2])
    /\ PlusLine(lines[3])
    /\ Len(all_changes) = 1

(* C3: a malformed '@@' line is skipped without an error and does not end   *)
(* the pass: every hunk header after it is recognised, and its hunk, when   *)
(* it has a changed line, has its records in the output.                    *)
C3_MalformedSkipped ==
    /\ pc # "error"
    /\ pc = "done" =>
        \A m \in 1..Len(lines) : \A h \in Headers :
            (MalformedHeader(lines[m]) /\ m < h /\ HunkChanged(h)) =>
                \E k \in 1..Len(all_changes) :
                    all_changes[k].line = HeaderNewOf(lines[h][3])

\* C3 witness: a malformed '@@' line, then a hunk whose record is in the output
C3_Witness ==
    /\ pc = "done"
    /\ Len(lines) = 3
    /\ MalformedHeader(lines[1])
    /\ IsChunkHeader(lines[2])
    /\ PlusLine(lines[3])
    /\ Len(all_changes) = 1
    /\ all_changes[1].line = HeaderNewOf(lines[2][3])

\* The fields of a Change
ChangeFields ==
    {"section", "type", "line", "preview", "additions", "deletions", "anchor",
     "detail", "html_element"}

(* C4: the run never ends in an error: with no diff file it returns the     *)
(* empty list; for every diff text and every snapshot (present, empty or    *)
(* missing) what it returns is a list of records; no section lookup leaves  *)
(* the snapshot.                                                            *)
C4_NeverFails ==
    /\ pc # "error"
    /\ (pc = "done" /\ ~diff_exists) => all_changes = <<>>
    /\ pc = "done" =>
        \A k \in 1..Len(all_changes) : DOMAIN all_changes[k] = ChangeFields

\* C4 witness: a run on a present snapshot returned a record with its section found
C4_Witness ==
    /\ pc = "done"
    /\ snapshot_path.exists
    /\ all_changes # <<>>
    /\ all_changes[1].anchor = "pricing"

----------------------------------------------------------------------------
(* Elements, in the words of the claims *)

\* A line that holds a whole element or no tag of the boundary list at all
SelfContained(line) == FirstOpenTag(line) = FirstCloseTag(line)

\* One block that begins with a line opening `tag` and ends with the line closing it
Block(ls, tag) ==
    /\ Len(ls) >= 2
    /\ ls[1] = <<"<" \o tag \o ">">>
    /\ ls[Len(ls)] = <<"</" \o tag \o ">">>
    /\ \A k \in 2 .. Len(ls) - 1 :
          SelfContained(ls[k]) /\ FirstOpenTag(ls[k]) # tag

\* Exactly one '<li>' element: on one line, or a block
OneListItem(ls) ==
    \/ Len(ls) = 1 /\ FirstOpenTag(ls[1]) = "li" /\ FirstCloseTag(ls[1]) = "li"
    \/ Block(ls, "li")

(* C5: a hunk with no removed line whose added lines are one block from a    *)
(* '<tr>' line to its matching '</tr>' line, whatever lies between, yields   *)
(* exactly one record: table_row, additions > 0, deletions = 0, a label with *)
(* the 'added' prefix.                                                       *)
C5_SingleTableRow ==
    (pc = "split_return" /\ removed_lines = <<>> /\ Block(added_lines, "tr")) =>
        /\ Len(chunk_changes) = 1
        /\ chunk_changes[1].html_element = "table_row"
        /\ chunk_changes[1].additions > 0
        /\ chunk_changes[1].deletions = 0
        /\ chunk_changes[1].type[1] = AddedPrefix

(* C6: a hunk whose added lines are exactly one '<li>' element and whose     *)
(* removed lines are exactly one '<li>' element yields exactly one record:   *)
(* 'modified' list_item, additions > 0, deletions > 0, and a preview made of *)
(* '[old]' with the deleted preview, then '[new]' with the added preview.    *)
C6_ListItemModified ==
    (pc = "split_return" /\ OneListItem(added_lines) /\ OneListItem(removed_lines)) =>
        /\ Len(chunk_changes) = 1
        /\ chunk_changes[1].type = <<"modified: ", "list_item">>
        /\ chunk_changes[1].additions > 0
        /\ chunk_changes[1].deletions > 0
        /\ chunk_changes[1].preview.text =
              <<"[old]">> \o Flatten([k \in 1..Len(removed_lines) |-> StripTags(removed_lines[k])])
              \o <<"->", "[new]">>
              \o Flatten([k \in 1..Len(added_lines) |-> StripTags(added_lines[k])])

\* The heading lines of a hunk body: an added one, a removed one
AddedHeading(line) == PlusLine(line) /\ FirstOpenTag(Tail(line)) \in {"h1", "h2", "h3"}

RemovedHeading(line) == MinusLine(line) /\ FirstOpenTag(Tail(line)) \in {"h1", "h2", "h3"}

(* C7: a heading addition in one hunk and a heading deletion in another hunk *)
(* are never merged: they stay two records, the first with the heading       *)
(* '(new)' label and the second with the heading '(old)' label.              *)
C7_HeadingsStaySeparate ==
    LET n == Len(lines)
    IN  (/\ pc = "done"
         /\ Cardinality(Headers) = 2
         /\ n >= 4
         /\ IsChunkHeader(lines[n - 3]) /\ AddedHeading(lines[n - 2])
         /\ IsChunkHeader(lines[n - 1]) /\ RemovedHeading(lines[n])) =>
            /\ Len(all_changes) = 2
            /\ all_changes[1].type = HeadingNew
            /\ all_changes[2].type = HeadingOld
            /\ all_changes[1].line # all_changes[2].line

\* The heading at index h (0-based) of the snapshot has an id and is followed
\* by a line with text
Qualifies(h) ==
    /\ 0 <= h /\ h + 1 < Len(snapshot_lines)
    /\ HeadingId(snapshot_lines[h + 1]) # ""
    /\ StripTags(snapshot_lines[h + 2]) # <<>>

\* What get_section_info returns for the heading at index h (0-based)
SectionOf(h) ==
    [section |-> StripTags(snapshot_lines[h + 2]),
     anchor |-> HeadingId(snapshot_lines[h + 1]),
     error |-> FALSE]

(* C8: for every position, the first line included, of a heading with an id  *)
(* followed by a line with text, get_section_info of the line number just    *)
(* after the heading returns that text and that id.                          *)
C8_SectionAfterHeading ==
    pc = "section_return" =>
        \A h \in 0 .. Len(snapshot_lines) - 1 :
            (Qualifies(h) /\ line_number = h + 2) => section_info = SectionOf(h)

\* The indexes (0-based) get_section_info reads for line number n: from
\* n - 1, or the last line, down to the index after max(0, n - 500)
Scanned(n) ==
    {idx \in 0 .. Len(snapshot_lines) - 1 :
        idx <= n - 1 /\ idx > 0 /\ idx > n - 500}

(* C9, as stated: the sentinel with an empty anchor, never an error, when no *)
(* qualifying heading lies in the scanned window, and also when the snapshot *)
(* is missing or empty or the line number is 0, negative or beyond the end;  *)
(* the anchor is non-empty only when the section is not the sentinel.        *)
C9_SentinelAsStated ==
    pc = "section_return" =>
        /\ ~section_info.error
        /\ (\A idx \in Scanned(line_number) : ~Qualifies(idx)) => section_info = Sentinel
        /\ (snapshot_lines = <<>> \/ line_number <= 0
            \/ line_number > Len(snapshot_lines)) => section_info = Sentinel
        /\ section_info.anchor # "" => section_info.section # UnknownSection

(* C9, amended: the sentinel with an empty anchor, never an error, when no   *)
(* qualifying heading lies in the scanned window, and also when the snapshot *)
(* is missing or empty or the line number is 0, negative, or at least 499    *)
(* lines beyond the end; a line number less far beyond the end is looked up  *)
(* from the last line; the anchor is non-empty only when the result is the   *)
(* text and id of a qualifying heading of the window.                        *)
C9_Sentinel ==
    pc = "section_return" =>
        /\ ~section_info.error
        /\ (\A idx \in Scanned(line_number) : ~Qualifies(idx)) => section_info = Sentinel
        /\ (snapshot_lines = <<>> \/ line_number <= 0
            \/ line_number >= Len(snapshot_lines) + 499) => section_info = Sentinel
        /\ section_info.anchor # "" =>
              \E idx \in Scanned(line_number) :
                  Qualifies(idx) /\ section_info = SectionOf(idx)

\* C9 witness: a line number beyond the end of a snapshot whose only
\* qualifying heading is outside the window, and the sentinel returned
C9_Witness ==
    /\ pc = "section_return"
    /\ line_number > Len(snapshot_lines)
    /\ \E h \in 0 .. Len(snapshot_lines) - 1 : Qualifies(h)
    /\ section_info = Sentinel

(* C10: when an opening '<div>' is never closed, find_element_boundaries     *)
(* emits exactly one range for it, from the '<div>' line to the end of the   *)
(* sequence, whatever tags open or close after it; no line from the '<div>'  *)
(* on is dropped.                                                            *)
C10_UnclosedDiv ==
    pc = "boundaries_return" =>
        \A d \in 1 .. Len(added_lines) :
            (/\ added_lines[d] = <<"<div>">>
             /\ \A k \in 1 .. d - 1 :
                   FirstOpenTag(added_lines[k]) = "" /\ FirstCloseTag(added_lines[k]) = ""
             /\ \A k \in d + 1 .. Len(added_lines) : FirstCloseTag(added_lines[k]) # "div") =>
                /\ Cardinality({k \in 1 .. Len(added_boundaries) :
                                  added_boundaries[k][2] > d - 1}) = 1
                /\ \E k \in 1 .. Len(added_boundaries) :
                      added_boundaries[k] = <<d - 1, Len(added_lines)>>

(* C11: two runs of parse_diff_advanced on the same diff text and the same   *)
(* snapshot return the same list of records: the same records with the same  *)
(* fields in the same order, whatever the earlier run left behind.           *)
C11_Deterministic ==
    (pc = "done" /\ prev_changes.ran) => all_changes = prev_changes.result

\* C11 witness: the second run ended, and it returned a merged record with
\* its section found
C11_Witness ==
    /\ pc = "done"
    /\ prev_changes.ran
    /\ \E k \in 1..Len(all_changes) :
          /\ all_changes[k].additions > 0
          /\ all_changes[k].deletions > 0
          /\ all_changes[k].anchor # ""

\* The position in the diff text of the hunk header whose new_start is n
HunkAt(n) == CHOOSE h \in Headers : HeaderNewOf(lines[h][3]) = n

\* The new_start values of the hunks strictly increase in file order
NewStartsIncrease ==
    \A g, h \in Headers :
        g < h => HeaderNewOf(lines[g][3]) < HeaderNewOf(lines[h][3])

(* C12: the output follows the order of the hunks: every record of an        *)
(* earlier hunk comes before every record of a later hunk, and when the      *)
(* new_start values of the hunks strictly increase the line fields of the    *)
(* output never decrease (from each record to the next, hence throughout).   *)
C12_HunkOrder ==
    \A k \in 1 .. Len(all_changes) - 1 :
        /\ HunkAt(all_changes[k].line) <= HunkAt(all_changes[k + 1].line)
        /\ NewStartsIncrease => all_changes[k].line <= all_changes[k + 1].line

\* C12 witness: two hunks with a changed line each, and their two records
C12_Witness ==
    /\ pc = "done"
    /\ Cardinality(Headers) = 2
    /\ Len(all_changes) = 2
    /\ all_changes[1].line < all_changes[2].line
    /\ HunkAt(all_changes[1].line) < HunkAt(all_changes[2].line)

\* The record was made by the merge step
Merged(change) == change.type[1] = "modified: "

(* C13: every raw record built by split_chunk_into_changes has exactly one   *)
(* of additions > 0 and deletions > 0, the other being 0; a record of the    *)
(* result has both above 0 if and only if the merge step made it; no record  *)
(* has both equal to 0.                                                      *)
C13_OneSidedUnlessMerged ==
    pc = "split_return" =>
        LET raw == raw_changes
        IN  /\ \A k \in 1..Len(raw) :
                  \/ raw[k].additions > 0 /\ raw[k].deletions = 0
                  \/ raw[k].additions = 0 /\ raw[k].deletions > 0
            /\ \A k \in 1..Len(chunk_changes) :
                  /\ (chunk_changes[k].additions > 0 /\ chunk_changes[k].deletions > 0)
                        <=> Merged(chunk_changes[k])
                  /\ chunk_changes[k].additions > 0 \/ chunk_changes[k].deletions > 0

\* C13 witness: a result with a merged record, a plain addition and a plain deletion
C13_Witness ==
    /\ pc = "split_return"
    /\ \E k \in 1..Len(chunk_changes) : Merged(chunk_changes[k])
    /\ \E k \in 1..Len(chunk_changes) :
          chunk_changes[k].additions > 0 /\ chunk_changes[k].deletions = 0
    /\ \E k \in 1..Len(chunk_changes) :
          chunk_changes[k].additions = 0 /\ chunk_changes[k].deletions > 0

(* C14: the preview of every record of the result, raw or merged, is at most *)
(* 150 characters long, whatever the length of the text of its range.        *)
C14_PreviewAtMost150 ==
    pc = "split_return" =>
        \A k \in 1..Len(chunk_changes) : chunk_changes[k].preview.len <= 150

\* The record at position p (1-based) of the list pairs with the one after it
PairsWithNext(raw, p) ==
    /\ p + 1 <= Len(raw)
    /\ raw[p + 1].html_element = raw[p].html_element
    /\ raw[p + 1].section = raw[p].section
    /\ raw[p].additions > 0
    /\ raw[p + 1].deletions > 0

\* The position in the list at which the left-to-right pass emits its k-th record
RECURSIVE PassPosition(_, _)
PassPosition(raw, k) ==
    IF k = 1 THEN 1
    ELSE LET p == PassPosition(raw, k - 1)
         IN  IF PairsWithNext(raw, p) THEN p + 2 ELSE p + 1

(* C15: the merge step is the greedy left-to-right single pass over the raw  *)
(* records: at a position whose record pairs with the next one (same         *)
(* html_element, same section, additions > 0 here, deletions > 0 there) one  *)
(* record is emitted, with section, anchor, line, additions and html_element *)
(* of the first, deletions of the second, the 'modified' type and the        *)
(* preview '[old] second -> [new] first', and the pass moves on by two;      *)
(* otherwise the record is emitted as it is and the pass moves on by one;    *)
(* the pass ends exactly at the end of the list.                             *)
C15_GreedyMerge ==
    pc = "split_return" =>
        LET raw == raw_changes
        IN  /\ PassPosition(raw, Len(chunk_changes) + 1) = Len(raw) + 1
            /\ \A k \in 1..Len(chunk_changes) :
                  LET p == PassPosition(raw, k)
                      out == chunk_changes[k]
                  IN  IF PairsWithNext(raw, p)
                      THEN /\ out.section = raw[p].section
                           /\ out.anchor = raw[p].anchor
                           /\ out.line = raw[p].line
                           /\ out.additions = raw[p].additions
                           /\ out.html_element = raw[p].html_element
                           /\ out.deletions = raw[p + 1].deletions
                           /\ out.type = <<"modified: ", raw[p].html_element>>
                           /\ out.preview.text =
                                 <<"[old]">> \o raw[p + 1].preview.text
                                 \o <<"->", "[new]">> \o raw[p].preview.text
                      ELSE out = raw[p]

\* C15 witness: a pass that emitted a record as it was, then merged a pair,
\* then emitted the record after the pair as it was
C15_Witness ==
    /\ pc = "split_return"
    /\ Len(chunk_changes) = 3
    /\ ~Merged(chunk_changes[1])
    /\ Merged(chunk_changes[2])
    /\ ~Merged(chunk_changes[3])

\* The lowercased joined text of the range has the marker
Has(marker) ==
    \E k \in 1..Len(added_lines) : \E j \in 1..Len(added_lines[k]) :
        marker \in MarkersOf(Lower(added_lines[k][j]))

\* The rules in their order of priority: whether the rule matches, its category
Rules ==
    << <<Has("<tr>") \/ Has("<td>"), "table_row">>,
       <<Has("<li>"), "list_item">>,
       <<Has("<h1") \/ Has("<h2") \/ Has("<h3"), "heading">>,
       <<Has("<p>") \/ Has("<p "), "paragraph">>,
       <<Has("<div class=\"admonition"), "admonition">>,
       <<Has("class=\"md-nav"), "navigation">>,
       <<Has("<a") /\ Has("href="), "link">>,
       <<TRUE, "content">> >>

(* C16: detect_element_type returns the category of the first rule that      *)
(* matches, in the fixed order table_row, list_item, heading, paragraph,     *)
(* admonition, navigation, link, content, for every combination of markers   *)
(* in the lowercased text of the range; the result is one of these eight.    *)
C16_FirstRuleWins ==
    pc = "detect_return" =>
        /\ \E r \in 1..Len(Rules) :
              /\ Rules[r][1]
              /\ \A q \in 1 .. r - 1 : ~Rules[q][1]
              /\ detected = Rules[r][2]
        /\ detected \in {Rules[r][2] : r \in 1..Len(Rules)}

\* C16 witness: a range with a table cell in upper case and a list item is a
\* table row
C16_Witness ==
    /\ pc = "detect_return"
    /\ Has("<td>") /\ ~Has("<tr>") /\ Has("<li>")
    /\ \E k \in 1..Len(added_lines) : added_lines[k] = <<"<TD>">>
    /\ detected = "table_row"

\* The ranges of one side of the hunk, in order
RangesOf(side) ==
    LET bs == find_element_boundaries(side)
    IN  [k \in 1..Len(bs) |-> Slice(side, bs[k][1], bs[k][2])]

\* The text of the range has the marker, as it is written
HasRaw(range, marker) ==
    \E k \in 1..Len(range) : \E j \in 1..Len(range[k]) : marker \in MarkersOf(range[k][j])

\* The override applies to the range
Overridden(range) ==
    /\ InTableRow(context_lines)
    /\ detect_element_type(range) = "content"
    /\ ~HasRaw(range, "<tr>") /\ ~HasRaw(range, "<p>") /\ ~HasRaw(range, "<div")

(* C17: the html_element of a raw record is the natural classification of    *)
(* its range, except through the table-row override: exactly when the        *)
(* in-table-row flag is set, the natural classification is content and the   *)
(* text of the range has none of '<tr>', '<p>', '<div', it is table_row; a   *)
(* range that is naturally anything but content is never reclassified; the   *)
(* rule is the same on the added and on the removed side.                    *)
C17_OverrideOnly ==
    pc = "split_return" =>
        LET raw == raw_changes
            ranges == RangesOf(added_lines) \o RangesOf(removed_lines)
        IN  /\ Len(raw) = Len(ranges)
            /\ \A k \in 1..Len(raw) :
                  /\ Overridden(ranges[k]) => raw[k].html_element = "table_row"
                  /\ ~Overridden(ranges[k]) =>
                        raw[k].html_element = detect_element_type(ranges[k])
                  /\ detect_element_type(ranges[k]) # "content" =>
                        raw[k].html_element = detect_element_type(ranges[k])

\* C17 witness: inside a table row, a line of text added is a table row, a
\* '<div>' removed stays content, and a list item stays a list item
C17_Witness ==
    /\ pc = "split_return"
    /\ InTableRow(context_lines)
    /\ added_lines = <<<<"item">>>>
    /\ removed_lines = <<<<"<li>", "old item", "</li>">>, <<"<div>">>>>
    /\ Len(chunk_changes) = 3
    /\ chunk_changes[1].html_element = "table_row"
    /\ chunk_changes[2].html_element = "list_item"
    /\ chunk_changes[3].html_element = "content"

\* The line at index idx (0-based) of the sequence has an opening tag
OpensAt(idx) == FirstOpenTag(added_lines[idx + 1]) # ""

\* The index of the first line from index n on that has an opening tag: with
\* no range in progress at n the stack is empty, and this is the line whose
\* tag is pushed onto the empty stack
PushedOnEmptyStack(n, idx) ==
    /\ n <= idx
    /\ OpensAt(idx)
    /\ \A j \in n .. idx - 1 : ~OpensAt(j)

(* C18: the start of every range that find_element_boundaries emits is the   *)
(* index of the line whose opening tag was pushed onto the empty stack: the  *)
(* first line with an opening tag after the end of the range before, or from *)
(* the start of the sequence; a nested opening tag never moves it, wherever  *)
(* the range lies, index 0 included.                                          *)
C18_StartAtEmptyStack ==
    (pc = "boundaries_return" /\ \E idx \in 0 .. Len(added_lines) - 1 : OpensAt(idx)) =>
        \A k \in 1..Len(added_boundaries) :
            PushedOnEmptyStack(IF k = 1 THEN 0 ELSE added_boundaries[k - 1][2],
                               added_boundaries[k][1])

\* The indexes (0-based) of the lines just before line number n, up to 500
\* of them: lines max(1, n - 500) to min(n - 1, N)
LinesBefore(n) ==
    {idx \in 0 .. Len(snapshot_lines) - 1 :
        idx + 1 >= Max(1, n - 500) /\ idx + 1 <= Min(n - 1, Len(snapshot_lines))}

\* The greatest member of a non-empty set of indexes
Nearest(S) == CHOOSE idx \in S : \A other \in S : other <= idx

(* C19: for line number L in a snapshot of N lines get_section_info examines *)
(* exactly the lines max(1, L - 500) to min(L - 1, N): it returns the        *)
(* nearest qualifying heading among them, the first line of the snapshot and *)
(* the line 500 before L included, and the sentinel when there is none, the  *)
(* line L itself not being examined.                                         *)
C19_WindowBeforeTarget ==
    pc = "section_return" =>
        LET found == {idx \in LinesBefore(line_number) : Qualifies(idx)}
        IN  section_info = IF found = {} THEN Sentinel ELSE SectionOf(Nearest(found))

\* The position in the diff text of the first changed line of the only hunk,
\* one past the end when there is none
FirstChanged ==
    LET changed == {k \in 1..Len(lines) : PlusLine(lines[k]) \/ MinusLine(lines[k])}
    IN  IF changed = {} THEN Len(lines) + 1
        ELSE CHOOSE k \in changed : \A other \in changed : k <= other

\* A context line of the hunk, before its changed lines, has '<tr>' or '<td>'
CellBeforeChange ==
    \E k \in 1 .. FirstChanged - 1 :
        /\ \E h \in Headers : h < k
        /\ HasRaw(<<lines[k]>>, "<tr>") \/ HasRaw(<<lines[k]>>, "<td>")

(* C20: the in-table-row flag is set only when context lines before the      *)
(* changed lines of the hunk have '<tr>' or '<td>'; context lines after the  *)
(* changed lines never set it. The changed lines here are plain text, so the *)
(* flag is set exactly when a record is a table row.                         *)
C20_PrecedingContextOnly ==
    pc = "done" =>
        \A k \in 1..Len(all_changes) :
            all_changes[k].html_element = "table_row" => CellBeforeChange

\* The name of a category in a label
LabelName(html_element) ==
    CASE html_element = "table_row" -> "table row"
      [] html_element = "list_item" -> "list item"
      [] OTHER -> html_element

\* The lines of the side of the hunk that a raw record is of
SideOf(change) == IF change.additions > 0 THEN added_lines ELSE removed_lines

(* C21: the label of every raw record is the one of its side and of its own  *)
(* html_element: a heading has the '(new)' wording on the added side and the *)
(* '(old)' wording on the removed side; a record of another category has the *)
(* added or deleted prefix of its side and the name of that category; the    *)
(* fixed Warning and Note labels go only to admonition records whose text    *)
(* has the warning or note marker.                                           *)
C21_LabelOfOwnElement ==
    \A k \in 1..Len(raw_changes) :
        LET r == raw_changes[k]
            prefix == IF r.additions > 0 THEN AddedPrefix ELSE DeletedPrefix
        IN  IF r.html_element = "heading"
            THEN r.type = (IF r.additions > 0 THEN HeadingNew ELSE HeadingOld)
            ELSE \/ r.type = <<prefix, LabelName(r.html_element)>>
                 \/ /\ r.html_element = "admonition"
                    /\ \/ r.type = <<prefix, "Warning">>
                          /\ HasRaw(SideOf(r), "admonition warning")
                       \/ r.type = <<prefix, "Note">>
                          /\ HasRaw(SideOf(r), "admonition note")

\* The line at position k lies between the well-formed hunk header at h and
\* the next well-formed hunk header, or the end of the text
InHunkOf(h, k) == h < k /\ k <= Len(lines) /\ \A j \in h + 1 .. k : j \notin Headers

\* The changed lines of the hunk of the header at h, by side
PlusLinesOf(h) == {k \in 1..Len(lines) : InHunkOf(h, k) /\ PlusLine(lines[k])}

MinusLinesOf(h) == {k \in 1..Len(lines) : InHunkOf(h, k) /\ MinusLine(lines[k])}

(* C22: every line between a well-formed hunk header and the next            *)
(* well-formed hunk header, or the end of the text, belongs to that hunk: at *)
(* the end of the hunk its added lines are the '+' lines and its removed     *)
(* lines are the '-' lines of that stretch, a malformed '@@' line in the     *)
(* middle not ending the hunk, so that no '+' or '-' line after it is lost.  *)
C22_HunkExtent ==
    [][(pc = "chunk" /\ pc' # "chunk") =>
         LET h == LastHeaderUpTo(i)
         IN  /\ Len(added_lines) = Cardinality(PlusLinesOf(h))
             /\ Len(removed_lines) = Cardinality(MinusLinesOf(h))]_vars

(* C23: for every line sequence the ranges that find_element_boundaries      *)
(* returns are non-empty (start < end), lie within 0 and the length of the   *)
(* sequence, and are in ascending order and disjoint, each starting at or    *)
(* after the end of the one before; for the empty sequence there is none.    *)
C23_RangesWellFormed ==
    pc = "boundaries_return" =>
        /\ \A k \in 1..Len(added_boundaries) :
              /\ 0 <= added_boundaries[k][1]
              /\ added_boundaries[k][1] < added_boundaries[k][2]
              /\ added_boundaries[k][2] <= Len(added_lines)
        /\ \A k \in 1 .. Len(added_boundaries) - 1 :
              added_boundaries[k][2] <= added_boundaries[k + 1][1]
        /\ added_lines = <<>> => added_boundaries = <<>>

\* C23 witness: two ranges, with a line between them and a nested tag in the
\* second, or the empty sequence and no range
C23_Witness ==
    /\ pc = "boundaries_return"
    /\ Len(added_boundaries) = 2
    /\ added_boundaries[1][2] < added_boundaries[2][1]
    /\ added_boundaries[2][2] - added_boundaries[2][1] >= 2

(* C24: no changed line is lost between the hunk and its records: the sum of *)
(* the additions of the records of the hunk is the number of its added lines *)
(* and the sum of their deletions is the number of its removed lines, every  *)
(* line of each side lying in a range of find_element_boundaries.            *)
C24_NoLineLost ==
    pc = "split_return" =>
        /\ SumSeq([k \in 1..Len(chunk_changes) |-> chunk_changes[k].additions])
              = Len(added_lines)
        /\ SumSeq([k \in 1..Len(chunk_changes) |-> chunk_changes[k].deletions])
              = Len(removed_lines)

\* The number of raw records of the added side: they come first in the list
AdditionCount == Cardinality({k \in 1..Len(raw_changes) : raw_changes[k].additions > 0})

(* C25: the raw records of a hunk are all its additions, then all its        *)
(* deletions, so split_chunk_into_changes makes at most one merged record    *)
(* per hunk, and that record pairs the last addition with the first          *)
(* deletion; every other addition and deletion passes through as it is,      *)
(* however many pairs of equal category the hunk holds.                      *)
C25_AtMostOneMerge ==
    pc = "split_return" =>
        LET a == AdditionCount
            merged == {k \in 1..Len(chunk_changes) : Merged(chunk_changes[k])}
        IN  /\ \A k \in 1..Len(raw_changes) : (raw_changes[k].additions > 0) <=> (k <= a)
            /\ Cardinality(merged) <= 1
            /\ \A k \in merged :
                  /\ k = a
                  /\ chunk_changes[k].additions = raw_changes[a].additions
                  /\ chunk_changes[k].deletions = raw_changes[a + 1].deletions
            /\ \A k \in 1..Len(chunk_changes) :
                  k \notin merged =>
                      chunk_changes[k] = raw_changes[IF merged # {} /\ k > a THEN k + 1 ELSE k]
            /\ Len(chunk_changes) = Len(raw_changes) - Cardinality(merged)

\* C25 witness: two additions and two deletions, all list items, and one
\* merged record between an addition and a deletion left as they were
C25_Witness ==
    /\ pc = "split_return"
    /\ Len(raw_changes) = 4
    /\ AdditionCount = 2
    /\ \A k \in 1..4 : raw_changes[k].html_element = "list_item"
    /\ Len(chunk_changes) = 3
    /\ Merged(chunk_changes[2])

\* The record r is placed at line number n, in the section found for n
PlacedAt(r, n) ==
    /\ r.line = n
    /\ r.section = get_section_info(n).section
    /\ r.anchor = get_section_info(n).anchor

(* C26: all the records made from one hunk, of both sides, merged or not,    *)
(* carry the same line, section and anchor: the line is the new_start of the *)
(* hunk's header and the section and anchor are what get_section_info        *)
(* returns for it, wherever in the hunk the element lies; so two records of  *)
(* one hunk are always of the same section.                                  *)
C26_SameLineAndSection ==
    [][(pc = "chunk" /\ pc' = "scan" /\ (added_lines # <<>> \/ removed_lines # <<>>)) =>
           LET n == HeaderNewOf(lines[LastHeaderUpTo(i)][3])
           IN  /\ \A k \in 1..Len(raw_changes') : PlacedAt(raw_changes'[k], n)
               /\ \A k \in 1..Len(chunk_changes') : PlacedAt(chunk_changes'[k], n)
               /\ \A j, k \in 1..Len(raw_changes') :
                     raw_changes'[j].section = raw_changes'[k].section
               /\ all_changes' = all_changes \o chunk_changes']_vars

\* C26 witness: a hunk at line 4 with an element on each side, its records in
\* the section of the heading above line 4, merged into the one returned
C26_Witness ==
    /\ pc = "done"
    /\ Len(raw_changes) = 2
    /\ raw_changes[1].additions > 0 /\ raw_changes[2].deletions > 0
    /\ raw_changes[1].anchor = "pricing" /\ raw_changes[2].anchor = "pricing"
    /\ raw_changes[1].line = 4 /\ raw_changes[2].line = 4
    /\ Len(all_changes) = 1
    /\ Merged(all_changes[1])
    /\ all_changes[1].anchor = "pricing"

====
